---- MODULE Spec2Model ----
(***************************************************************************)
(* Model of the LLMath-Problems backend (src/backend/main.py): the three   *)
(* document-store collections and the request handlers of the REST API.    *)
(* Every handler is a coroutine; it can be suspended at each `await` of a  *)
(* store call, so a handler is modelled as one action per store call.  The *)
(* local computation before a store call belongs to the action of that     *)
(* call, and the construction of the response belongs to the action of the *)
(* last store call of the handler.                                         *)
(***************************************************************************)
EXTENDS Integers, Sequences, FiniteSets, TLC

\* ------------------------------------------------------------------ bounds

\* Number of ObjectIds the server generates in a run (Problems and Tags).
MaxOids == 3

\* Number of requests the clients send in a run.
MaxRequests == 4

\* Concurrent request slots.
Workers == {"w1", "w2"}

\* ------------------------------------------------------------- value sets

\* A path parameter that bson.ObjectId() rejects ("not-an-id").
MalformedId == 0

\* The payload carries no "_id"/"id": Problem.id falls to default_factory.
NoId == -1

\* ObjectIds the server generates, in order of generation.
GeneratedOids == 1..MaxOids

\* A well-formed ObjectId made up by a client, never generated by the server.
ClientOid == MaxOids + 1

Oids == GeneratedOids \cup {ClientOid}

TypeNames == {"algebra", "geometry"}

Statements == {"2+2=?"}

\* `result` is Optional[str] = "": the payload may omit it.
Absent == "<absent>"
Results == {"4"}

\* Request payloads of POST/PUT /api/problems that pass validation, with the
\* "_id" drawn from ids.
Payloads(ids) == [_id : ids, statement : Statements, result : {Absent} \cup Results]

NoDoc == [_id |-> NoId, statement |-> "", result |-> ""]

\* ------------------------------------------------------------------ state

VARIABLES
    problems,   \* problems_collection: set of documents, unique on _id
    types,      \* types_collection: sequence of [_id, type_name] in insertion order
    bindings,   \* type_bindings_collection: sequence of [type_id, problem_id]
    nextOid,    \* the next ObjectId the server generates
    req,        \* per request slot: the running handler, its locals, its last response
    sent        \* number of requests the clients have sent

vars == <<problems, types, bindings, nextOid, req, sent>>

\* The well-formed ObjectIds a client can send: the ones the server has handed
\* out so far and the one it made up itself.
KnownOids == {o \in GeneratedOids : o < nextOid} \cup {ClientOid}

\* ------------------------------------------------------- store primitives

\* Problem.model_dump(by_alias=True): defaults filled in, id under "_id".
model_dump(p, oid) ==
    [_id |-> oid, statement |-> p.statement,
     result |-> IF p.result = Absent THEN "" ELSE p.result]

\* problems_collection.find_one({"_id": oid}): the set of matches (0 or 1).
find_problem(ps, oid) == {d \in ps : d._id = oid}

\* types_collection.find_one({"type_name": name}): indices of the matches;
\* find_one returns the first in store order.
type_matches(ts, name) == {i \in 1..Len(ts) : ts[i].type_name = name}

first_index(S) == CHOOSE i \in S : \A j \in S : i <= j

\* type_bindings_collection.find({...}) filters, in store order.
bindings_of_type(bs, tid) == SelectSeq(bs, LAMBDA b : b.type_id = tid)

\* Mutant of has_binding: the lookup passes the two ids in each other's place.
has_binding_swapped(bs, tid, pid) ==
    \E i \in 1..Len(bs) : bs[i].type_id = pid /\ bs[i].problem_id = tid

has_binding(bs, tid, pid) ==
    \E i \in 1..Len(bs) : bs[i].type_id = tid /\ bs[i].problem_id = pid

\* Mutant of delete_many_bindings: the filter names type_id instead of problem_id.
delete_many_bindings_by_type(bs, pid) == SelectSeq(bs, LAMBDA b : b.type_id # pid)

\* type_bindings_collection.delete_many({"problem_id": pid})
delete_many_bindings(bs, pid) == SelectSeq(bs, LAMBDA b : b.problem_id # pid)

\* ------------------------------------------------------------- responses

Resp(status, detail, doc, docs) ==
    [status |-> status, detail |-> detail, doc |-> doc, docs |-> docs]

NoResp == Resp(0, "none", NoDoc, <<>>)

\* A slot whose handler has returned: arguments and response are kept, locals dropped.
Done(op, id, tname, resp) ==
    [op |-> op, pc |-> "done", id |-> id, type_name |-> tname,
     type_id |-> NoId, blist |-> <<>>, acc |-> <<>>, resp |-> resp]

\* A slot whose handler is suspended before the store call `pc`.
Running(op, pc, id, tname, tid, blist, acc) ==
    [op |-> op, pc |-> pc, id |-> id, type_name |-> tname,
     type_id |-> tid, blist |-> blist, acc |-> acc, resp |-> NoResp]

Init ==
    /\ problems = {}
    /\ types = <<>>
    /\ bindings = <<>>
    /\ nextOid = 1
    /\ req = [w \in Workers |-> Done("none", NoId, "", NoResp)]
    /\ sent = 0

\* A request arrives at an idle slot.
Receive(w) ==
    /\ req[w].pc = "done"
    /\ sent < MaxRequests
    /\ sent' = sent + 1


\* ------------------------------------------------------- POST /api/problems

\* create_problem up to insert_one: the id is the payload's when it carries one
\* (Field(alias="_id"), populate_by_name), else default_factory generates it.
\* insert_one raises DuplicateKeyError on a stored _id: an unhandled fault, 500.
CreateInsert(w) ==
    /\ Receive(w)
    /\ \E p \in Payloads({NoId} \cup KnownOids) :
        /\ p._id = NoId => nextOid <= MaxOids
        /\ LET oid == IF p._id = NoId THEN nextOid ELSE p._id
               doc == model_dump(p, oid)
           IN  /\ nextOid' = IF p._id = NoId THEN nextOid + 1 ELSE nextOid
               /\ IF find_problem(problems, oid) # {}
                    THEN /\ problems' = problems
                         /\ req' = [req EXCEPT ![w] =
                                Done("create", oid, "", Resp(500, "error", NoDoc, <<>>))]
                    ELSE /\ problems' = problems \cup {doc}
                         /\ req' = [req EXCEPT ![w] =
                                Running("create", "create_find", oid, "", NoId, <<>>, <<>>)]
    /\ UNCHANGED <<types, bindings>>

\* Mutant of CreateFind: find_one is called with no filter and returns whichever
\* document the store yields first.
CreateFindAny(w) ==
    /\ req[w].pc = "create_find"
    /\ \E d \in problems :
        /\ \A e \in problems : d._id <= e._id
        /\ req' = [req EXCEPT ![w] =
                Done("create", req[w].id, "", Resp(200, "problem", d, <<>>))]
    /\ UNCHANGED <<problems, types, bindings, nextOid, sent>>

\* create_problem: find_one by inserted_id, then the response.
CreateFind(w) ==
    /\ req[w].pc = "create_find"
    /\ LET found == find_problem(problems, req[w].id)
       IN  req' = [req EXCEPT ![w] =
                IF found # {}
                  THEN Done("create", req[w].id, "",
                            Resp(200, "problem", CHOOSE d \in found : TRUE, <<>>))
                  ELSE Done("create", req[w].id, "", Resp(500, "error", NoDoc, <<>>))]
    /\ UNCHANGED <<problems, types, bindings, nextOid, sent>>

\* --------------------------------------------------- GET /api/problems/{id}

\* The response of get_problem for path parameter id against collection ps.
get_problem(ps, id) ==
    IF id = MalformedId THEN Resp(400, "error", NoDoc, <<>>)
    ELSE IF find_problem(ps, id) # {}
      THEN Resp(200, "problem", CHOOSE d \in find_problem(ps, id) : TRUE, <<>>)
      ELSE Resp(404, "error", NoDoc, <<>>)

GetProblem(w) ==
    /\ Receive(w)
    /\ \E id \in {MalformedId} \cup KnownOids :
        req' = [req EXCEPT ![w] = Done("read", id, "", get_problem(problems, id))]
    /\ UNCHANGED <<problems, types, bindings, nextOid>>

\* --------------------------------------------------- PUT /api/problems/{id}

\* Mutant of update_one: the call is made with upsert=True.
update_one_upsert(ps, oid, p) ==
    IF \E d \in ps : d._id = oid
      THEN {IF d._id = oid THEN model_dump(p, oid) ELSE d : d \in ps}
      ELSE ps \cup {model_dump(p, oid)}

\* update_one({"_id": oid}, {"$set": update_data}): every field but _id is set.
update_one(ps, oid, p) ==
    {IF d._id = oid THEN model_dump(p, oid) ELSE d : d \in ps}

\* update_result.modified_count: a matched document that $set changed.
modified_count(ps, oid, p) ==
    IF \E d \in ps : d._id = oid /\ d # model_dump(p, oid) THEN 1 ELSE 0

\* update_problem up to update_one.
UpdateOne(w) ==
    /\ Receive(w)
    /\ \E id \in {MalformedId} \cup KnownOids, p \in Payloads({NoId, ClientOid}) :
        IF id = MalformedId
          THEN /\ problems' = problems
               /\ req' = [req EXCEPT ![w] =
                      Done("update", id, "", Resp(400, "error", NoDoc, <<>>))]
          ELSE /\ problems' = update_one(problems, id, p)
               /\ req' = [req EXCEPT ![w] =
                      Running("update",
                              IF modified_count(problems, id, p) = 1
                                THEN "update_find_updated" ELSE "update_find_existing",
                              id, "", NoId, <<>>, <<>>)]
    /\ UNCHANGED <<types, bindings, nextOid>>

\* update_problem, modified_count == 1: find_one; None falls through.
UpdateFindUpdated(w) ==
    /\ req[w].pc = "update_find_updated"
    /\ LET found == find_problem(problems, req[w].id)
       IN  req' = [req EXCEPT ![w] =
                IF found # {}
                  THEN Done("update", req[w].id, "",
                            Resp(200, "problem", CHOOSE d \in found : TRUE, <<>>))
                  ELSE [req[w] EXCEPT !.pc = "update_find_existing"]]
    /\ UNCHANGED <<problems, types, bindings, nextOid, sent>>

\* update_problem: the second find_one, else 404.
UpdateFindExisting(w) ==
    /\ req[w].pc = "update_find_existing"
    /\ LET found == find_problem(problems, req[w].id)
       IN  req' = [req EXCEPT ![w] =
                IF found # {}
                  THEN Done("update", req[w].id, "",
                            Resp(200, "problem", CHOOSE d \in found : TRUE, <<>>))
                  ELSE Done("update", req[w].id, "", Resp(404, "error", NoDoc, <<>>))]
    /\ UNCHANGED <<problems, types, bindings, nextOid, sent>>

\* ------------------------------------------------ DELETE /api/problems/{id}

\* delete_problem up to delete_many on the bindings.
DeleteBindings(w) ==
    /\ Receive(w)
    /\ \E id \in {MalformedId} \cup KnownOids :
        IF id = MalformedId
          THEN /\ bindings' = bindings
               /\ req' = [req EXCEPT ![w] =
                      Done("delete", id, "", Resp(400, "error", NoDoc, <<>>))]
          ELSE /\ bindings' = delete_many_bindings(bindings, id)
               /\ req' = [req EXCEPT ![w] =
                      Running("delete", "delete_one", id, "", NoId, <<>>, <<>>)]
    /\ UNCHANGED <<problems, types, nextOid>>

\* delete_problem: delete_one on the problem, then the response.
DeleteOne(w) ==
    /\ req[w].pc = "delete_one"
    /\ LET found == find_problem(problems, req[w].id)
       IN  /\ problems' = problems \ found
           /\ req' = [req EXCEPT ![w] =
                  IF Cardinality(found) = 1
                    THEN Done("delete", req[w].id, "", Resp(200, "deleted", NoDoc, <<>>))
                    ELSE Done("delete", req[w].id, "", Resp(404, "error", NoDoc, <<>>))]
    /\ UNCHANGED <<types, bindings, nextOid, sent>>


\* ------------------------------------------------- POST /api/assign_type

\* The status assign_type_to_problem's try block ends with: the HTTPException(404)
\* raised inside `try` is an Exception, so `except Exception` catches it and
\* raises HTTPException(400) in its place.
assign_lookup_status(found) ==
    LET raised == IF found = {} THEN 404 ELSE 0
    IN  IF raised # 0 THEN 400 ELSE 0

\* assign_type_to_problem up to find_one on the problem.  A problem_id that is
\* no ObjectId fails the validation of ProblemWithType (422) before the handler.
AssignFindProblem(w) ==
    /\ Receive(w)
    /\ \E t \in TypeNames, id \in {MalformedId} \cup KnownOids :
        req' = [req EXCEPT ![w] =
            IF id = MalformedId
              THEN Done("assign", id, t, Resp(422, "error", NoDoc, <<>>))
              ELSE LET st == assign_lookup_status(find_problem(problems, id))
                   IN  IF st # 0
                         THEN Done("assign", id, t, Resp(st, "error", NoDoc, <<>>))
                         ELSE Running("assign", "assign_find_type", id, t,
                                      NoId, <<>>, <<>>)]
    /\ UNCHANGED <<problems, types, bindings, nextOid>>

\* Mutant of AssignFindType: the type is inserted without looking it up first.
AssignFindTypeNoLookup(w) ==
    /\ req[w].pc = "assign_find_type"
    /\ req' = [req EXCEPT ![w] = [req[w] EXCEPT !.pc = "assign_insert_type"]]
    /\ UNCHANGED <<problems, types, bindings, nextOid, sent>>

\* assign_type_to_problem: find_one on the type name.
AssignFindType(w) ==
    /\ req[w].pc = "assign_find_type"
    /\ LET m == type_matches(types, req[w].type_name)
       IN  req' = [req EXCEPT ![w] =
                IF m = {}
                  THEN [req[w] EXCEPT !.pc = "assign_insert_type"]
                  ELSE [req[w] EXCEPT !.pc = "assign_find_binding",
                                      !.type_id = types[first_index(m)]._id]]
    /\ UNCHANGED <<problems, types, bindings, nextOid, sent>>

\* assign_type_to_problem: insert_one of the new type; the store generates its _id.
AssignInsertType(w) ==
    /\ req[w].pc = "assign_insert_type"
    /\ nextOid <= MaxOids
    /\ types' = Append(types, [_id |-> nextOid, type_name |-> req[w].type_name])
    /\ nextOid' = nextOid + 1
    /\ req' = [req EXCEPT ![w] = [req[w] EXCEPT !.pc = "assign_find_binding",
                                                !.type_id = nextOid]]
    /\ UNCHANGED <<problems, bindings, sent>>

\* assign_type_to_problem: find_one on the binding (type_id, problem_id).
AssignFindBinding(w) ==
    /\ req[w].pc = "assign_find_binding"
    /\ req' = [req EXCEPT ![w] =
            IF has_binding(bindings, req[w].type_id, req[w].id)
              THEN Done("assign", req[w].id, req[w].type_name,
                        Resp(200, "already assigned", NoDoc, <<>>))
              ELSE [req[w] EXCEPT !.pc = "assign_insert_binding"]]
    /\ UNCHANGED <<problems, types, bindings, nextOid, sent>>

\* Mutant of AssignInsertBinding: the two ids are stored in each other's field.
AssignInsertBindingSwapped(w) ==
    /\ req[w].pc = "assign_insert_binding"
    /\ bindings' = Append(bindings, [type_id |-> req[w].id, problem_id |-> req[w].type_id])
    /\ req' = [req EXCEPT ![w] =
            Done("assign", req[w].id, req[w].type_name,
                 Resp(200, "assigned", NoDoc, <<>>))]
    /\ UNCHANGED <<problems, types, nextOid, sent>>

\* assign_type_to_problem: insert_one of the binding, then the confirmation.
AssignInsertBinding(w) ==
    /\ req[w].pc = "assign_insert_binding"
    /\ bindings' = Append(bindings, [type_id |-> req[w].type_id, problem_id |-> req[w].id])
    /\ req' = [req EXCEPT ![w] =
            Done("assign", req[w].id, req[w].type_name,
                 Resp(200, "assigned", NoDoc, <<>>))]
    /\ UNCHANGED <<problems, types, nextOid, sent>>

\* ------------------------------------------ GET /api/get_problems_by_type

\* get_problems_by_type up to find_one on the type name; no type: [].
QueryFindType(w) ==
    /\ Receive(w)
    /\ \E t \in TypeNames :
        LET m == type_matches(types, t)
        IN  req' = [req EXCEPT ![w] =
                IF m = {}
                  THEN Done("query", NoId, t, Resp(200, "list", NoDoc, <<>>))
                  ELSE Running("query", "query_find_bindings", NoId, t,
                               types[first_index(m)]._id, <<>>, <<>>)]
    /\ UNCHANGED <<problems, types, bindings, nextOid>>

\* get_problems_by_type: find(...).to_list on the bindings of the type.  An empty
\* list ends the loop at once: the handler returns problems_data = [].
QueryFindBindings(w) ==
    /\ req[w].pc = "query_find_bindings"
    /\ LET bl == bindings_of_type(bindings, req[w].type_id)
       IN  req' = [req EXCEPT ![w] =
                IF bl = <<>>
                  THEN Done("query", NoId, req[w].type_name, Resp(200, "list", NoDoc, <<>>))
                  ELSE [req[w] EXCEPT !.pc = "query_resolve", !.blist = bl]]
    /\ UNCHANGED <<problems, types, bindings, nextOid, sent>>

\* Mutant of QueryResolve: a binding whose problem is missing fails the request
\* with 404 instead of being skipped.
QueryResolveOrFail(w) ==
    /\ req[w].pc = "query_resolve"
    /\ LET found == find_problem(problems, Head(req[w].blist).problem_id)
           rest  == Tail(req[w].blist)
       IN  req' = [req EXCEPT ![w] =
                IF found = {}
                  THEN Done("query", NoId, req[w].type_name, Resp(404, "error", NoDoc, <<>>))
                  ELSE IF rest = <<>>
                    THEN Done("query", NoId, req[w].type_name,
                              Resp(200, "list", NoDoc,
                                   Append(req[w].acc, CHOOSE d \in found : TRUE)))
                    ELSE [req[w] EXCEPT !.blist = rest,
                                        !.acc = Append(req[w].acc, CHOOSE d \in found : TRUE)]]
    /\ UNCHANGED <<problems, types, bindings, nextOid, sent>>

\* get_problems_by_type: one turn of the loop, find_one on the binding's problem;
\* a missing problem is skipped with a warning.  After the last binding the
\* handler returns problems_data.  (Every stored binding has a problem_id, so
\* the `if not problem_id_val` branch is never taken.)
QueryResolve(w) ==
    /\ req[w].pc = "query_resolve"
    /\ LET found == find_problem(problems, Head(req[w].blist).problem_id)
           acc   == IF found # {}
                      THEN Append(req[w].acc, CHOOSE d \in found : TRUE)
                      ELSE req[w].acc
           rest  == Tail(req[w].blist)
       IN  req' = [req EXCEPT ![w] =
                IF rest = <<>>
                  THEN Done("query", NoId, req[w].type_name, Resp(200, "list", NoDoc, acc))
                  ELSE [req[w] EXCEPT !.blist = rest, !.acc = acc]]
    /\ UNCHANGED <<problems, types, bindings, nextOid, sent>>

\* ------------------------------------------------------- specifications

\* Requests are handled concurrently: any suspended handler may resume next.
Next ==
    \E w \in Workers :
        \/ CreateInsert(w)
        \/ CreateFind(w)
        \/ GetProblem(w)
        \/ UpdateOne(w)
        \/ UpdateFindUpdated(w)
        \/ UpdateFindExisting(w)
        \/ DeleteBindings(w)
        \/ DeleteOne(w)
        \/ AssignFindProblem(w)
        \/ AssignFindType(w)
        \/ AssignInsertType(w)
        \/ AssignFindBinding(w)
        \/ AssignInsertBinding(w)
        \/ QueryFindType(w)
        \/ QueryFindBindings(w)
        \/ QueryResolve(w)

Spec == Init /\ [][Next]_vars

\* No other handler is in flight.
Exclusive(w) == \A v \in Workers \ {w} : req[v].pc = "done"

\* Requests run one at a time: a handler runs to its response before the next
\* request is received.
NextSeq ==
    \E w \in Workers :
        \/ Exclusive(w) /\ CreateInsert(w)
        \/ Exclusive(w) /\ CreateFind(w)
        \/ Exclusive(w) /\ GetProblem(w)
        \/ Exclusive(w) /\ UpdateOne(w)
        \/ Exclusive(w) /\ UpdateFindUpdated(w)
        \/ Exclusive(w) /\ UpdateFindExisting(w)
        \/ Exclusive(w) /\ DeleteBindings(w)
        \/ Exclusive(w) /\ DeleteOne(w)
        \/ Exclusive(w) /\ AssignFindProblem(w)
        \/ Exclusive(w) /\ AssignFindType(w)
        \/ Exclusive(w) /\ AssignInsertType(w)
        \/ Exclusive(w) /\ AssignFindBinding(w)
        \/ Exclusive(w) /\ AssignInsertBinding(w)
        \/ Exclusive(w) /\ QueryFindType(w)
        \/ Exclusive(w) /\ QueryFindBindings(w)
        \/ Exclusive(w) /\ QueryResolve(w)

SpecSeq == Init /\ [][NextSeq]_vars


\* ----------------------------------------------------------- step shapes

\* Slot w received a request of kind op in this step.
Received(w, op) ==
    /\ sent' = sent + 1
    /\ req[w].pc = "done"
    /\ req'[w] # req[w]
    /\ req'[w].op = op

\* The handler of kind op in slot w returns its response in this step.
Returns(w, op) ==
    /\ req'[w].op = op
    /\ req'[w].pc = "done"
    /\ \/ req[w].op = op /\ req[w].pc # "done"
       \/ Received(w, op)

ProblemIdsOf(ps) == {d._id : d \in ps}

BindingsOfProblem(bs, pid) == {i \in 1..Len(bs) : bs[i].problem_id = pid}

\* ------------------------------------------------------------------ C1

C1_DeleteStep ==
    \A w \in Workers :
        (/\ req[w].pc = "delete_one"
         /\ req'[w].pc = "done"
         /\ find_problem(problems, req[w].id) # {})
        => /\ req'[w].resp.status = 200
           /\ req'[w].resp.detail = "deleted"
           /\ get_problem(problems', req[w].id).status = 404
           /\ BindingsOfProblem(bindings', req[w].id) = {}

\* C1: with requests run one at a time, Delete(id) on a stored Problem returns
\* the confirmation, and in the state it leaves Read(id) answers NotFound and no
\* Binding has problem_id = id, whatever requests came before.
C1_DeleteRemovesProblemAndBindings == [][C1_DeleteStep]_vars

\* A Delete returned its confirmation for a Problem that another request had
\* assigned a type to; the Binding of that assignment is gone.
C1_Witness ==
    \E w, v \in Workers :
        /\ req[w].op = "delete" /\ req[w].pc = "done" /\ req[w].resp.status = 200
        /\ req[v].op = "assign" /\ req[v].pc = "done"
        /\ req[v].resp.detail = "assigned" /\ req[v].id = req[w].id
        /\ find_problem(problems, req[w].id) = {}
        /\ BindingsOfProblem(bindings, req[w].id) = {}

\* ------------------------------------------------------------------ C2

C2_AssignStep ==
    \A w \in Workers :
        (/\ Received(w, "assign")
         /\ req'[w].id # MalformedId
         /\ find_problem(problems, req'[w].id) = {})
        => req'[w].resp.status = 404

\* C2: Assign(type_name, problem_id) with a well-formed problem_id under which no
\* Problem is stored fails with NotFound (404), and with no other error kind.
C2_AssignMissingProblemIsNotFound == [][C2_AssignStep]_vars

\* ------------------------------------------------------------------ C3

C3_CreateStep ==
    \A w \in Workers :
        Received(w, "create")
        => /\ nextOid' = nextOid + 1
           /\ req'[w].id = nextOid
           /\ nextOid \notin ProblemIdsOf(problems)
           /\ \E d \in problems' : d._id = nextOid /\ problems' = problems \cup {d}

\* C3: Create ignores the id of the payload: whatever the payload, it stores a new
\* Problem under a fresh server-generated id, different from every stored id.
C3_CreateRegeneratesId == [][C3_CreateStep]_vars


\* ------------------------------------------------------------------ C4

\* The _id of the Tag that find_one({"type_name": name}) returns from ts.
TagIdOf(ts, name) == ts[first_index(type_matches(ts, name))]._id

C4_OneBindingPerPair ==
    \A i, j \in 1..Len(bindings) : bindings[i] = bindings[j] => i = j

C4_AssignReturn ==
    \A w \in Workers :
        (Returns(w, "assign") /\ req'[w].resp.status = 200)
        => /\ type_matches(types, req'[w].type_name) # {}
           /\ (req'[w].resp.detail = "already assigned")
                <=> \E i \in 1..Len(bindings) :
                        bindings[i] = [type_id |-> TagIdOf(types, req'[w].type_name),
                                       problem_id |-> req'[w].id]
           /\ req'[w].resp.detail = "already assigned" => bindings' = bindings

\* C4: with requests run one at a time, an Assign of a type_name to a problem_id
\* that already carries it answers "already assigned" and adds no Binding, and
\* there is never more than one Binding per (type id, problem id) pair.
C4_AssignTwiceKeepsOneBinding == []C4_OneBindingPerPair /\ [][C4_AssignReturn]_vars

\* The second Assign of the pair has answered "already assigned"; the pair has
\* its one Binding.
C4_Witness ==
    \E w \in Workers :
        /\ req[w].op = "assign" /\ req[w].pc = "done"
        /\ req[w].resp.detail = "already assigned"
        /\ type_matches(types, req[w].type_name) # {}
        /\ Cardinality({i \in 1..Len(bindings) :
                bindings[i] = [type_id |-> TagIdOf(types, req[w].type_name),
                               problem_id |-> req[w].id]}) = 1

\* ------------------------------------------------------------------ C5

Quiescent == \A w \in Workers : req[w].pc = "done"

\* C5: once Delete(id) has returned its confirmation and every request in flight
\* has completed, no Binding with problem_id = id is left, in every interleaving
\* of the Delete with concurrent Assign requests (the Problem not having been
\* stored again since).
C5_DeleteIsAtomic ==
    \A w \in Workers :
        (/\ Quiescent
         /\ req[w].op = "delete"
         /\ req[w].resp.status = 200
         /\ find_problem(problems, req[w].id) = {})
        => BindingsOfProblem(bindings, req[w].id) = {}

\* ------------------------------------------------------------------ C6

C6_ReplaceStep ==
    \A w \in Workers :
        /\ (Received(w, "update") /\ req'[w].id # MalformedId
                /\ find_problem(problems, req'[w].id) = {})
           => problems' = problems
        /\ (Returns(w, "update") /\ req'[w].id # MalformedId)
           => /\ req'[w].resp.status = 404 <=> find_problem(problems', req'[w].id) = {}
              /\ find_problem(problems', req'[w].id) # {}
                 => /\ req'[w].resp.status = 200
                    /\ req'[w].resp.doc \in find_problem(problems', req'[w].id)

\* C6: with requests run one at a time and a well-formed id, Replace(id, P)
\* answers NotFound exactly when no Problem is stored under id, and then leaves
\* the problems collection as it was; when the Problem is stored it answers with
\* the stored document, also when the update modified nothing.
C6_ReplaceNotFoundIffMissing == [][C6_ReplaceStep]_vars

\* A Replace whose update_one reported modified_count = 0 on a stored Problem
\* is about to answer.
C6_Witness ==
    \E w \in Workers :
        /\ req[w].op = "update" /\ req[w].pc = "update_find_existing"
        /\ find_problem(problems, req[w].id) # {}


\* ------------------------------------------------------------------ C7

C7_CreateStep ==
    /\ \A w \in Workers :
        (Returns(w, "create") /\ req'[w].resp.status = 200)
        => get_problem(problems', req'[w].id) = req'[w].resp
    /\ \A id \in Oids :
        (/\ get_problem(problems, id).status = 200
         /\ get_problem(problems', id) # get_problem(problems, id))
        => \E v \in Workers :
              \/ Received(v, "update") /\ req'[v].id = id
              \/ req[v].pc = "delete_one" /\ req[v].id = id /\ req'[v].pc = "done"

\* C7: the document Create(P) returns is the one Read answers with for its id
\* (same id, same field values), and it stays so until a Replace or a Delete of
\* that id.
C7_ReadAfterCreate == [][C7_CreateStep]_vars

\* A Create whose payload left `result` out has returned, and a Read of the id it
\* returned has answered with the same document.
C7_Witness ==
    \E w, v \in Workers :
        /\ req[w].op = "create" /\ req[w].pc = "done" /\ req[w].resp.status = 200
        /\ req[w].resp.doc.result = ""
        /\ req[v].op = "read" /\ req[v].pc = "done" /\ req[v].id = req[w].resp.doc._id
        /\ req[v].resp = req[w].resp

\* ------------------------------------------------------------------ C8

\* The Problems stored now that the Bindings of the Tag found for name t refer
\* to, one per Binding, in the order of the Bindings.
ProblemsOfType(t) ==
    IF type_matches(types, t) = {} THEN <<>>
    ELSE LET live == SelectSeq(bindings,
                        LAMBDA b : /\ b.type_id = TagIdOf(types, t)
                                   /\ b.problem_id \in ProblemIdsOf(problems))
         IN  [k \in 1..Len(live) |-> CHOOSE d \in problems : d._id = live[k].problem_id]

C8_QueryReturn ==
    \A w \in Workers :
        Returns(w, "query")
        => /\ req'[w].resp.status = 200
           /\ req'[w].resp.docs = ProblemsOfType(req'[w].type_name)

\* C8 as claimed: Query by type value t answers [] when no Tag with value t is
\* stored, and otherwise, without failing, exactly the Problems stored when it
\* answers that the Bindings of the Tag found for t refer to, one entry per
\* Binding, a Binding whose Problem is gone being skipped.
C8_QueryReturnsCurrentProblems == [][C8_QueryReturn]_vars

\* The entries a Binding b adds to the result in a store holding ps: the Problem
\* of b as stored in ps, or nothing when ps holds no such Problem.
EntryOf(b, ps) ==
    IF b.problem_id \in ProblemIdsOf(ps)
      THEN <<CHOOSE d \in ps : d._id = b.problem_id>>
      ELSE <<>>

C8_QueryStep ==
    \A w \in Workers :
        \* never a failure
        /\ Returns(w, "query") => req'[w].resp.status = 200
        \* the lookup of the Tag
        /\ Received(w, "query")
           => IF \A i \in 1..Len(types) : types[i].type_name # req'[w].type_name
                THEN req'[w].pc = "done" /\ req'[w].resp.docs = <<>>
                ELSE /\ req'[w].pc = "query_find_bindings"
                     /\ req'[w].type_id = TagIdOf(types, req'[w].type_name)
        \* the listing of the Tag's Bindings
        /\ (req[w].pc = "query_find_bindings" /\ req'[w] # req[w])
           => LET listed == SelectSeq(bindings, LAMBDA b : b.type_id = req[w].type_id)
              IN  IF listed = <<>>
                    THEN req'[w].pc = "done" /\ req'[w].resp.docs = <<>>
                    ELSE /\ req'[w].pc = "query_resolve"
                         /\ req'[w].blist = listed
                         /\ req'[w].acc = <<>>
        \* one Binding resolved against the store as it is at that moment
        /\ (req[w].pc = "query_resolve" /\ req'[w] # req[w])
           => LET out == req[w].acc \o EntryOf(Head(req[w].blist), problems)
              IN  IF Len(req[w].blist) = 1
                    THEN req'[w].pc = "done" /\ req'[w].resp.docs = out
                    ELSE /\ req'[w].pc = "query_resolve"
                         /\ req'[w].blist = Tail(req[w].blist)
                         /\ req'[w].acc = out

\* C8, amended: Query by type value t answers [] when no Tag with value t is
\* stored at its lookup, and otherwise, without failing, one entry per Binding the
\* Tag found for t had when the handler listed them, in their order: the Problem
\* as stored at the moment the handler looks it up, a Binding whose Problem is not
\* stored at that moment being skipped.
C8_QueryByType == [][C8_QueryStep]_vars

\* A query is at a Binding whose Problem is no longer stored.
C8_Witness ==
    \E w \in Workers :
        /\ req[w].op = "query" /\ req[w].pc = "query_resolve"
        /\ find_problem(problems, Head(req[w].blist).problem_id) = {}

\* ------------------------------------------------------------------ C9

\* C9: the get-or-create of a Tag in Assign is not atomic: Tags of one type_name
\* can be stored twice (C9_Witness), one per Assign that was between its lookup
\* and its insert at the same time, hence never more than there are request slots.
C9_TagsPerNameBounded ==
    \A t \in TypeNames : Cardinality(type_matches(types, t)) <= Cardinality(Workers)

\* Two distinct Tags carry the same type_name.
C9_Witness ==
    \E i, j \in 1..Len(types) :
        /\ i # j
        /\ types[i]._id # types[j]._id
        /\ types[i].type_name = types[j].type_name

\* ----------------------------------------------------------------- C10

C10_TagsKept ==
    /\ Len(types') >= Len(types)
    /\ \A i \in 1..Len(types) : types'[i] = types[i]

C10_BindingsReferToTags ==
    \A i \in 1..Len(bindings) : \E j \in 1..Len(types) : types[j]._id = bindings[i].type_id

\* C10: no step of any handler removes or alters a stored Tag, and in every
\* reachable state, under every interleaving, the type_id of every Binding is the
\* _id of a stored Tag.
C10_TagsOnlyAccumulate == [][C10_TagsKept]_vars /\ []C10_BindingsReferToTags

\* A Binding outlives its Problem and still refers to a stored Tag.
C10_Witness ==
    \E i \in 1..Len(bindings) :
        /\ find_problem(problems, bindings[i].problem_id) = {}
        /\ \E j \in 1..Len(types) : types[j]._id = bindings[i].type_id

====
